---- MODULE Spec2Model ----
(***************************************************************************)
(* Model of the data-derivation code of the SIA analytics dashboard:       *)
(*   pages/Module1_Flight_Performance.py  (prepare_flight_data, UI, CLI)   *)
(*   pages/Module2_Customer_Experience.py (map_satisfaction,               *)
(*                                          distance_bucket, UI, CLI)      *)
(* A DataFrame is a record [cols, rows]: cols is the set of column names,  *)
(* rows a sequence of functions from cols to cell values.  Text cells are  *)
(* sequences of one-character strings so that str.lower() is computed.     *)
(* Floating-point values are fixed-point integers: the jitter is in        *)
(* 1/1000, the fuel rate in 1/100, hence fuel is in 1/100000 kg.           *)
(***************************************************************************)
EXTENDS Integers, Sequences, FiniteSets, TLC

VARIABLES
    file,      \* the dataset as the loader reads it (never written)
    df,        \* contents of the DataFrame instance load_data last handed out
    loaded,    \* contents of that instance at the moment it was handed out
    rng,       \* state of the process-wide np.random source
    op,        \* the operation that ran last
    ret,       \* what it returned (None or a DataFrame)
    outcome,   \* "returned", "error_reported", "completed", or the exception raised
    derived,   \* TRUE when the operation ran a derivation step on a table
    kpi,       \* the metrics the entry point reported
    sessions,  \* per concurrent session: its position in prepare_flight_data and its table
    cli        \* the menu loop of run_cli: position, last choice, module run, last message

vars == <<file, df, loaded, rng, op, ret, outcome, derived, kpi, sessions, cli>>

----------------------------------------------------------------------------
(* Bounds of the model *)

MaxRows == 2
MaxLabelRows == 1
RngMod == 4

----------------------------------------------------------------------------
(* Column names *)

FlightDistance == "Flight Distance"
DepartureDelay == "Departure Delay in Minutes"
ArrivalDelay == "Arrival Delay in Minutes"
FuelCol == "Estimated Fuel Consumption (kg)"
Satisfaction == "satisfaction"
SatisfactionScore == "satisfaction_score"
DistanceSegment == "Distance Segment"
CustomerType == "Customer Type"
Class == "Class"

crew_cols == <<"On-board service", "Inflight service", "Checkin service">>

service_cols ==
    <<"Seat comfort", "Inflight entertainment", "Food and drink",
      "On-board service", "Cleanliness", "Inflight service", "Checkin service">>

Range(s) == {s[i] : i \in DOMAIN s}

None == [none |-> TRUE]

----------------------------------------------------------------------------
(* Text: a string is a sequence of one-character strings *)

UpperCase ==
    <<"A","B","C","D","E","F","G","H","I","J","K","L","M",
      "N","O","P","Q","R","S","T","U","V","W","X","Y","Z">>

LowerCase ==
    <<"a","b","c","d","e","f","g","h","i","j","k","l","m",
      "n","o","p","q","r","s","t","u","v","w","x","y","z">>

\* str.lower() on one character
LowerChar(c) ==
    IF \E i \in DOMAIN UpperCase : UpperCase[i] = c
    THEN LowerCase[CHOOSE i \in DOMAIN UpperCase : UpperCase[i] = c]
    ELSE c

\* Series.str.lower() on one cell
Lower(s) == [i \in DOMAIN s |-> LowerChar(s[i])]

\* a missing cell (NaN) of a text column
NaN == <<"NaN">>

\* Series.astype(str) on one cell: text stays, a missing value becomes "nan"
AsStr(v) == IF v = NaN THEN <<"n","a","n">> ELSE v

very_dissatisfied ==
    <<"v","e","r","y"," ","d","i","s","s","a","t","i","s","f","i","e","d">>
dissatisfied == <<"d","i","s","s","a","t","i","s","f","i","e","d">>
neutral_or_dissatisfied ==
    <<"n","e","u","t","r","a","l"," ","o","r"," ",
      "d","i","s","s","a","t","i","s","f","i","e","d">>
neutral == <<"n","e","u","t","r","a","l">>
neutral_or_satisfied ==
    <<"n","e","u","t","r","a","l"," ","o","r"," ","s","a","t","i","s","f","i","e","d">>
satisfied == <<"s","a","t","i","s","f","i","e","d">>
very_satisfied == <<"v","e","r","y"," ","s","a","t","i","s","f","i","e","d">>

\* the lookup table of map_satisfaction
mapping ==
    (very_dissatisfied :> 1) @@ (dissatisfied :> 2) @@
    (neutral_or_dissatisfied :> 3) @@ (neutral :> 3) @@
    (neutral_or_satisfied :> 4) @@ (satisfied :> 4) @@
    (very_satisfied :> 5)

\* Series.map(mapping) on one cell: <<n>> when the key is present, <<>> (NaN) otherwise
MapCell(v) == IF v \in DOMAIN mapping THEN <<mapping[v]>> ELSE <<>>

\* Series.fillna(3) on one cell
FillNa(m) == IF m = <<>> THEN 3 ELSE m[1]

----------------------------------------------------------------------------
(* The datasets the loader may find *)

Satisfied_Cap == <<"S","a","t","i","s","f","i","e","d">>
SATISFIED_UP == <<"S","A","T","I","S","F","I","E","D">>
Neutral_Or_Dissatisfied_Cap ==
    <<"N","e","u","t","r","a","l"," ","o","r"," ",
      "D","i","s","s","a","t","i","s","f","i","e","d">>
Very_Dissatisfied_Cap ==
    <<"V","e","r","y"," ","D","i","s","s","a","t","i","s","f","i","e","d">>
arbitrary_text == <<"o","k","a","y">>
padded_satisfied == <<" ","s","a","t","i","s","f","i","e","d">>

Labels ==
    { very_dissatisfied, dissatisfied, neutral_or_dissatisfied, neutral,
      neutral_or_satisfied, satisfied, very_satisfied,
      Satisfied_Cap, SATISFIED_UP, Neutral_Or_Dissatisfied_Cap,
      Very_Dissatisfied_Cap, arbitrary_text, padded_satisfied, <<>>, NaN }

Distances == {0, 1000, 1499, 1500, 3499, 3500}

RawColumns ==
    {FlightDistance, DepartureDelay, ArrivalDelay, Satisfaction, CustomerType, Class}
        \cup Range(service_cols)

\* the cell every row carries in a column the model does not vary (a
\* category is text of one token, so that it compares with a missing cell)
DefaultCell(c) ==
    CASE c = FlightDistance -> 1000
      [] c = DepartureDelay -> 10
      [] c = ArrivalDelay -> 20
      [] c = Satisfaction -> Satisfied_Cap
      [] c = CustomerType -> <<"Loyal Customer">>
      [] c = Class -> <<"Business">>
      [] OTHER -> 4

\* a row over all raw columns with the given distance and label
MkRow(d, l) ==
    [c \in RawColumns |->
        IF c = FlightDistance THEN d
        ELSE IF c = Satisfaction THEN l
        ELSE DefaultCell(c)]

SeqsUpTo(S, n) == UNION {[1..k -> S] : k \in 0..n}

\* DataFrame[cols]: the table restricted to a set of columns
Project(t, cs) ==
    [cols |-> cs, rows |-> [i \in DOMAIN t.rows |-> [c \in cs |-> t.rows[i][c]]]]

\* datasets whose rows differ in distance
DistanceTables ==
    {[cols |-> RawColumns, rows |-> r] :
        r \in SeqsUpTo({MkRow(d, Satisfied_Cap) : d \in Distances}, MaxRows)}

\* datasets whose rows differ in satisfaction label
LabelTables ==
    {[cols |-> RawColumns, rows |-> r] :
        r \in SeqsUpTo({MkRow(1000, l) : l \in Labels}, MaxLabelRows)}

\* two passengers whose ratings differ
RatedTable ==
    [cols |-> RawColumns,
     rows |-> <<MkRow(1000, Satisfied_Cap),
                [MkRow(3500, neutral) EXCEPT !["Seat comfort"] = 2,
                                             !["On-board service"] = 5,
                                             !["Checkin service"] = 1]>>]

\* datasets lacking one column, and the DataFrame() without rows or columns
SparseTables ==
    {Project(RatedTable, RawColumns \ {c}) : c \in RawColumns}
    \cup {[cols |-> {}, rows |-> <<>>]}

\* datasets lacking some of the optional rating columns: any of the crew
\* columns, all but the crew columns, or all of them
OptionalTables ==
    {Project(RatedTable, RawColumns \ S) :
        S \in SUBSET Range(crew_cols)
              \cup {Range(service_cols), Range(service_cols) \ Range(crew_cols)}}

\* datasets with a missing cell in a segmentation column
GappyTables ==
    {[cols |-> RawColumns,
      rows |-> <<MkRow(1000, Satisfied_Cap), [MkRow(3500, neutral) EXCEPT ![c] = NaN]>>] :
        c \in {CustomerType, Class}}

Datasets ==
    {None} \cup DistanceTables \cup LabelTables \cup SparseTables
        \cup OptionalTables \cup GappyTables

----------------------------------------------------------------------------
(* DataFrame primitives *)

\* len(df)
Length(t) == Len(t.rows)

\* df.empty: some axis has length 0
Empty(t) == Len(t.rows) = 0 \/ t.cols = {}

\* "df is None or df.empty": the loader returned no table, or an empty one
Missing(t) == t = None \/ Empty(t)

\* df[c] = values, in place: the column is added, or overwritten when present
SetColumn(t, c, values) ==
    [cols |-> t.cols \cup {c},
     rows |-> [i \in DOMAIN t.rows |->
                 [k \in t.cols \cup {c} |-> IF k = c THEN values[i] ELSE t.rows[i][k]]]]

\* df[c] as a sequence of cells
Column(t, c) == [i \in DOMAIN t.rows |-> t.rows[i][c]]

\* load_data(): the loader re-reads the dataset or hands out the instance it
\* handed out before
LoadData == {file, df}

----------------------------------------------------------------------------
(* The process-wide random source (np.random) *)

SEED == 42
BASE_FUEL_RATE == 5
JITTER_LOW == 900
JITTER_HIGH == 1100

\* np.random.seed(k): the state is a function of k alone
Seed(k) == k % RngMod

\* one step of the generator
Advance(s) == (s + 1) % RngMod

\* the state after n draws
RECURSIVE AdvanceBy(_, _)
AdvanceBy(s, n) == IF n = 0 THEN s ELSE AdvanceBy(Advance(s), n - 1)

\* Scale with the division by the generator's range forgotten
Scale_unscaled(s, low, high) == low + (high - low) * s

\* the value in [low, high) a draw yields in state s, in 1/1000
Scale(s, low, high) == low + ((high - low) * s) \div RngMod

\* np.random.uniform(low, high, size=n) from state s: the i-th value
Uniform(s, low, high, n) == [i \in 1..n |-> Scale(AdvanceBy(s, i), low, high)]

----------------------------------------------------------------------------
(* Module 1: prepare_flight_data *)

\* the fuel column computed from a table and the state of the source
FuelValues(t, s) ==
    LET jitter == Uniform(s, JITTER_LOW, JITTER_HIGH, Length(t))
    IN  [i \in DOMAIN t.rows |-> t.rows[i][FlightDistance] * BASE_FUEL_RATE * jitter[i]]

\* Reseed with the call of np.random.seed left out
Reseed_skipped(s) == s

\* the state np.random.seed(42) leaves the source in, given the state before
Reseed(s) == Seed(SEED)

\* prepare_flight_data testing "df is None" only
prepare_flight_data_no_empty_check(t, s) ==
    IF t = None
    THEN [ret |-> None, df |-> t, rng |-> s, exc |-> "none"]
    ELSE IF FlightDistance \notin t.cols
    THEN [ret |-> None, df |-> t, rng |-> Reseed(s), exc |-> "KeyError"]
    ELSE LET out == SetColumn(t, FuelCol, FuelValues(t, Reseed(s)))
         IN  [ret |-> out, df |-> out,
              rng |-> AdvanceBy(Reseed(s), Length(t)), exc |-> "none"]

\* prepare_flight_data() on the instance t handed out by load_data, with the
\* source in state s: what it returns, what becomes of the instance and of the
\* source, and the exception it raises if any
prepare_flight_data(t, s) ==
    IF t = None \/ Empty(t)
    THEN [ret |-> None, df |-> t, rng |-> s, exc |-> "none"]
    ELSE IF FlightDistance \notin t.cols
    THEN [ret |-> None, df |-> t, rng |-> Reseed(s), exc |-> "KeyError"]
    ELSE LET out == SetColumn(t, FuelCol, FuelValues(t, Reseed(s)))
         IN  [ret |-> out, df |-> out,
              rng |-> AdvanceBy(Reseed(s), Length(t)), exc |-> "none"]

----------------------------------------------------------------------------
(* Aggregates *)

RECURSIVE Sum(_)
Sum(q) == IF q = <<>> THEN 0 ELSE q[1] + Sum(Tail(q))

\* Series.mean() as the exact fraction sum / n
Mean(q) == [sum |-> Sum(q), n |-> Len(q)]

\* [c for c in wanted if c in df.columns]
Available(wanted, t) == SelectSeq(wanted, LAMBDA c : c \in t.cols)

NoKpi == [shown |-> {}]

----------------------------------------------------------------------------
(* Module 1: the entry points *)

\* FlightMetrics reporting crew ratings only when all three columns are there
FlightMetrics_crew_all_or_nothing(t) ==
    [total_flights |-> Length(t),
     avg_distance |-> Mean(Column(t, FlightDistance)),
     avg_dep_delay |-> Mean(Column(t, DepartureDelay)),
     avg_arr_delay |-> Mean(Column(t, ArrivalDelay)),
     avg_fuel |-> Mean(Column(t, FuelCol)),
     crew |-> [c \in (IF Range(crew_cols) \subseteq t.cols THEN Range(crew_cols) ELSE {})
                  |-> Mean(Column(t, c))]]

\* the metrics both entry points compute from the prepared table
FlightMetrics(t) ==
    [total_flights |-> Length(t),
     avg_distance |-> Mean(Column(t, FlightDistance)),
     avg_dep_delay |-> Mean(Column(t, DepartureDelay)),
     avg_arr_delay |-> Mean(Column(t, ArrivalDelay)),
     avg_fuel |-> Mean(Column(t, FuelCol)),
     crew |-> [c \in Range(Available(crew_cols, t)) |-> Mean(Column(t, c))]]

\* the body shared by run_flight_performance_ui and run_flight_performance_cli:
\* prepare, stop with an error when nothing was loaded, otherwise report
RunFlightPerformance(name, t) ==
    LET p == prepare_flight_data(t, rng)
    IN  /\ op' = name
        /\ loaded' = t
        /\ df' = p.df
        /\ rng' = p.rng
        /\ ret' = p.ret
        /\ derived' = (p.ret # None)
        /\ IF p.exc # "none"
           THEN outcome' = p.exc /\ kpi' = NoKpi
           ELSE IF p.ret = None
           THEN outcome' = "error_reported" /\ kpi' = NoKpi
           ELSE IF ~ ({DepartureDelay, ArrivalDelay} \subseteq p.ret.cols)
           THEN outcome' = "KeyError" /\ kpi' = NoKpi
           ELSE outcome' = "completed" /\ kpi' = FlightMetrics(p.ret)
        /\ UNCHANGED <<file, sessions>>

run_flight_performance_ui ==
    /\ \E t \in LoadData : RunFlightPerformance("run_flight_performance_ui", t)
    /\ UNCHANGED cli

run_flight_performance_cli ==
    /\ \E t \in LoadData : RunFlightPerformance("run_flight_performance_cli", t)
    /\ UNCHANGED cli

\* a direct call of prepare_flight_data
PrepareFlightData ==
    \E t \in LoadData :
        LET p == prepare_flight_data(t, rng)
        IN  /\ op' = "prepare_flight_data"
            /\ loaded' = t
            /\ df' = p.df
            /\ rng' = p.rng
            /\ ret' = p.ret
            /\ derived' = (p.ret # None)
            /\ outcome' = (IF p.exc # "none" THEN p.exc ELSE "returned")
            /\ kpi' = NoKpi
            /\ UNCHANGED <<file, sessions, cli>>

\* any other code of the process drawing from the shared source
OtherDraw ==
    /\ op' = "draw"
    /\ rng' = Advance(rng)
    /\ ret' = None
    /\ outcome' = "returned"
    /\ derived' = FALSE
    /\ kpi' = NoKpi
    /\ UNCHANGED <<file, df, loaded, sessions, cli>>

----------------------------------------------------------------------------
(* Module 2: map_satisfaction and distance_bucket *)

\* NormalizeLabel without .str.lower()
NormalizeLabel_no_lower(v) == AsStr(v)

\* the label cell as map_satisfaction stores it back
NormalizeLabel(v) == Lower(AsStr(v))

\* map_satisfaction(df): works on a copy; raises when df is None or has no
\* satisfaction column
map_satisfaction(t) ==
    IF t = None THEN [ret |-> None, exc |-> "AttributeError"]
    ELSE IF Satisfaction \notin t.cols THEN [ret |-> None, exc |-> "KeyError"]
    ELSE LET copy == t
             low == SetColumn(copy, Satisfaction,
                              [i \in DOMAIN copy.rows |->
                                  NormalizeLabel(copy.rows[i][Satisfaction])])
             out == SetColumn(low, SatisfactionScore,
                              [i \in DOMAIN low.rows |->
                                  FillNa(MapCell(low.rows[i][Satisfaction]))])
         IN  [ret |-> out, exc |-> "none"]

\* distance_bucket with the two upper labels exchanged
distance_bucket_swapped(km) ==
    IF km < 1500 THEN "Short-haul"
    ELSE IF km < 3500 THEN "Long-haul"
    ELSE "Medium-haul"

\* distance_bucket with <= for <
distance_bucket_inclusive(km) ==
    IF km <= 1500 THEN "Short-haul"
    ELSE IF km <= 3500 THEN "Medium-haul"
    ELSE "Long-haul"

distance_bucket(km) ==
    IF km < 1500 THEN "Short-haul"
    ELSE IF km < 3500 THEN "Medium-haul"
    ELSE "Long-haul"

\* a direct call of map_satisfaction on the loaded table
MapSatisfaction ==
    \E t \in LoadData :
        LET m == map_satisfaction(t)
        IN  /\ op' = "map_satisfaction"
            /\ loaded' = t
            /\ df' = t
            /\ ret' = m.ret
            /\ derived' = TRUE
            /\ outcome' = (IF m.exc # "none" THEN m.exc ELSE "returned")
            /\ kpi' = NoKpi
            /\ UNCHANGED <<file, rng, sessions, cli>>

----------------------------------------------------------------------------
(* Module 2: the entry points *)

\* sorted(df[c].dropna().unique()) as a set
Options(t, c) == {t.rows[i][c] : i \in DOMAIN t.rows} \ {NaN}

\* df[mask]: the rows whose cells are among the selected values
Filter(t, cust_type, travel_class, distance_seg) ==
    [cols |-> t.cols,
     rows |-> SelectSeq(t.rows, LAMBDA r :
                 /\ r[CustomerType] \in cust_type
                 /\ r[Class] \in travel_class
                 /\ r[DistanceSegment] \in distance_seg)]

\* Pearson's r of two columns as the parts of the exact fraction
\* cov / sqrt(varx * vary); it is NaN when varx * vary = 0
Pearson(x, y) ==
    LET n == Len(x)
        xy == [i \in DOMAIN x |-> x[i] * y[i]]
        xx == [i \in DOMAIN x |-> x[i] * x[i]]
        yy == [i \in DOMAIN y |-> y[i] * y[i]]
    IN  [cov |-> n * Sum(xy) - Sum(x) * Sum(y),
         varx |-> n * Sum(xx) - Sum(x) * Sum(x),
         vary |-> n * Sum(yy) - Sum(y) * Sum(y)]

\* the correlation computed without .drop("satisfaction_score")
CorrWithSatisfaction_not_dropped(t) ==
    LET available == Available(service_cols, t)
        selected == Range(available) \cup {SatisfactionScore}
    IN  [c \in selected |->
            Pearson(Column(t, c), Column(t, SatisfactionScore))]

\* filtered[available + ["satisfaction_score"]].corr()["satisfaction_score"]
\*     .drop("satisfaction_score").sort_values()
\* as a mapping from column to coefficient (sort_values reorders the
\* entries of the mapping and keeps them all)
CorrWithSatisfaction(t) ==
    LET available == Available(service_cols, t)
        selected == Range(available) \cup {SatisfactionScore}
        column == [c \in selected |->
                     Pearson(Column(t, c), Column(t, SatisfactionScore))]
    IN  [c \in selected \ {SatisfactionScore} |-> column[c]]

\* the three figures both entry points report
SatisfactionMetrics(t) ==
    [passengers |-> Length(t),
     avg_satisfaction |-> Mean(Column(t, SatisfactionScore)),
     satisfaction_rate |->
        Mean([i \in DOMAIN t.rows |-> IF t.rows[i][SatisfactionScore] >= 4 THEN 1 ELSE 0])]

\* run_customer_experience_ui with the sidebar left at its defaults
run_customer_experience_ui ==
    \E t \in LoadData :
        /\ op' = "run_customer_experience_ui"
        /\ loaded' = t
        /\ df' = t
        /\ IF t = None \/ Empty(t)
           THEN /\ outcome' = "error_reported"
                /\ ret' = None
                /\ derived' = FALSE
                /\ kpi' = NoKpi
           ELSE LET m == map_satisfaction(t)
                IN  /\ derived' = TRUE
                    /\ IF m.exc # "none"
                       THEN outcome' = m.exc /\ ret' = None /\ kpi' = NoKpi
                       ELSE IF ~ ({FlightDistance, CustomerType, Class} \subseteq m.ret.cols)
                       THEN outcome' = "KeyError" /\ ret' = None /\ kpi' = NoKpi
                       ELSE LET seg == SetColumn(m.ret, DistanceSegment,
                                          [i \in DOMAIN m.ret.rows |->
                                              distance_bucket(m.ret.rows[i][FlightDistance])])
                                filtered == Filter(seg, Options(seg, CustomerType),
                                                   Options(seg, Class),
                                                   {"Short-haul", "Medium-haul", "Long-haul"})
                            IN  /\ outcome' = "completed"
                                /\ ret' = seg
                                /\ kpi' = SatisfactionMetrics(filtered)
                                             @@ [corr |-> CorrWithSatisfaction(filtered)]
        /\ UNCHANGED <<file, rng, sessions, cli>>

\* the body of run_customer_experience_cli: no check of what the loader returned
RunCustomerExperienceCli(t) ==
    LET m == map_satisfaction(t)
    IN  /\ op' = "run_customer_experience_cli"
        /\ loaded' = t
        /\ df' = t
        /\ derived' = TRUE
        /\ ret' = m.ret
        /\ IF m.exc # "none"
           THEN outcome' = m.exc /\ kpi' = NoKpi
           ELSE outcome' = "completed" /\ kpi' = SatisfactionMetrics(m.ret)
        /\ UNCHANGED <<file, rng, sessions>>

run_customer_experience_cli ==
    /\ \E t \in LoadData : RunCustomerExperienceCli(t)
    /\ UNCHANGED cli

----------------------------------------------------------------------------
(* The system *)

\* no session is inside prepare_flight_data
NoSessions == <<>>

\* run_cli has not been entered
NotStarted == [pc |-> "off", choice |-> <<>>, ran |-> "none", printed |-> "none"]

Init ==
    /\ file \in Datasets
    /\ df = file
    /\ loaded = file
    /\ rng \in 0..(RngMod - 1)
    /\ op = "start"
    /\ ret = None
    /\ outcome = "returned"
    /\ derived = FALSE
    /\ kpi = NoKpi
    /\ sessions = NoSessions
    /\ cli = NotStarted

Next ==
    \/ PrepareFlightData
    \/ run_flight_performance_ui
    \/ run_flight_performance_cli
    \/ MapSatisfaction
    \/ run_customer_experience_ui
    \/ run_customer_experience_cli
    \/ OtherDraw

Spec == Init /\ [][Next]_vars

----------------------------------------------------------------------------
(* Concurrent sessions: prepare_flight_data run by several sessions of one
   process, each on its own load of the dataset, sharing np.random.  A
   session's steps are the statements of the function: the load and its
   test, the call of np.random.seed, the draw with the assignment. *)

Sessions == {1, 2}

SessionStart == [pc |-> "start", table |-> None, ret |-> None, exc |-> "none"]

\* df = load_data(); if df is None or df.empty: return None
SessionLoad(s) ==
    /\ sessions[s].pc = "start"
    /\ sessions' = [sessions EXCEPT ![s] =
            [@ EXCEPT !.table = file,
                      !.pc = IF Missing(file) THEN "done" ELSE "loaded"]]
    /\ UNCHANGED <<file, df, loaded, rng, op, ret, outcome, derived, kpi, cli>>

\* np.random.seed(42)
SessionSeed(s) ==
    /\ sessions[s].pc = "loaded"
    /\ rng' = Reseed(rng)
    /\ sessions' = [sessions EXCEPT ![s].pc = "seeded"]
    /\ UNCHANGED <<file, df, loaded, op, ret, outcome, derived, kpi, cli>>

\* df[fuel] = df["Flight Distance"] * BASE_FUEL_RATE * np.random.uniform(...); return df
SessionDraw(s) ==
    /\ sessions[s].pc = "seeded"
    /\ LET t == sessions[s].table
       IN  IF FlightDistance \notin t.cols
           THEN /\ sessions' = [sessions EXCEPT ![s] =
                        [@ EXCEPT !.pc = "done", !.exc = "KeyError"]]
                /\ rng' = rng
           ELSE /\ sessions' = [sessions EXCEPT ![s] =
                        [@ EXCEPT !.pc = "done",
                                  !.ret = SetColumn(t, FuelCol, FuelValues(t, rng))]]
                /\ rng' = AdvanceBy(rng, Length(t))
    /\ UNCHANGED <<file, df, loaded, op, ret, outcome, derived, kpi, cli>>

InitConcurrent ==
    /\ file \in Datasets
    /\ df = file
    /\ loaded = file
    /\ rng \in 0..(RngMod - 1)
    /\ op = "start"
    /\ ret = None
    /\ outcome = "returned"
    /\ derived = FALSE
    /\ kpi = NoKpi
    /\ sessions = [s \in Sessions |-> SessionStart]
    /\ cli = NotStarted

NextConcurrent ==
    \E s \in Sessions :
        \/ SessionLoad(s)
        \/ SessionSeed(s)
        \/ SessionDraw(s)

SpecConcurrent == InitConcurrent /\ [][NextConcurrent]_vars

----------------------------------------------------------------------------
(* Dashboard.py: the menu loop of run_cli.  One action is one iteration: the
   menu is printed, a line is read and stripped, the choice is dispatched.
   The line a "Press ENTER" prompt reads is discarded and not modelled. *)

Whitespace == {" ", "\t"}

\* str.strip()
RECURSIVE Strip(_)
Strip(line) ==
    IF line = <<>> THEN line
    ELSE IF Head(line) \in Whitespace THEN Strip(Tail(line))
    ELSE IF line[Len(line)] \in Whitespace THEN Strip(SubSeq(line, 1, Len(line) - 1))
    ELSE line

\* what the user may type at the prompt
Lines ==
    { <<"1">>, <<"2">>, <<"3">>, <<"4">>, <<"5">>, <<" ", "5", " ">>, <<"2", " ">>,
      <<"\t", "1">>, <<>>, <<" ">>, <<"6">>, <<"0">>, <<"x">>, <<"5", "5">>,
      <<"1", " ", "2">>, <<"e", "x", "i", "t">> }

Raised == {"KeyError", "AttributeError"}

\* run_cli is entered: the banner is printed, the loop begins
RunCli ==
    /\ cli.pc = "off"
    /\ cli' = [pc |-> "menu", choice |-> <<>>, ran |-> "none", printed |-> "banner"]
    /\ UNCHANGED <<file, df, loaded, rng, op, ret, outcome, derived, kpi, sessions>>

\* choice == "1": run_flight_performance_cli(); an exception it raises leaves run_cli
MenuFlightPerformance ==
    /\ cli.pc = "menu"
    /\ \E line \in Lines :
          /\ Strip(line) = <<"1">>
          /\ \E t \in LoadData : RunFlightPerformance("run_flight_performance_cli", t)
          /\ cli' = [pc |-> IF outcome' \in Raised THEN "raised" ELSE "menu",
                     choice |-> Strip(line), ran |-> "module1", printed |-> "module"]

\* choice == "2": run_customer_experience_cli()
MenuCustomerExperience ==
    /\ cli.pc = "menu"
    /\ \E line \in Lines :
          /\ Strip(line) = <<"2">>
          /\ \E t \in LoadData : RunCustomerExperienceCli(t)
          /\ cli' = [pc |-> IF outcome' \in Raised THEN "raised" ELSE "menu",
                     choice |-> Strip(line), ran |-> "module2", printed |-> "module"]

\* run_cli of Module3_Risk_Simulation or Module4_Cloud_Analytics: it runs and returns
RunOtherModule(name) ==
    /\ op' = name
    /\ ret' = None
    /\ outcome' = "completed"
    /\ derived' = FALSE
    /\ kpi' = NoKpi
    /\ UNCHANGED <<file, df, loaded, rng, sessions>>

\* choice == "3": run_risk_simulation_cli()
MenuRiskSimulation ==
    /\ cli.pc = "menu"
    /\ \E line \in Lines :
          /\ Strip(line) = <<"3">>
          /\ RunOtherModule("run_risk_simulation_cli")
          /\ cli' = [pc |-> "menu", choice |-> Strip(line), ran |-> "module3",
                     printed |-> "module"]

\* choice == "4": run_cloud_analytics_cli()
MenuCloudAnalytics ==
    /\ cli.pc = "menu"
    /\ \E line \in Lines :
          /\ Strip(line) = <<"4">>
          /\ RunOtherModule("run_cloud_analytics_cli")
          /\ cli' = [pc |-> "menu", choice |-> Strip(line), ran |-> "module4",
                     printed |-> "module"]

\* choice == "5": print("Goodbye."); break
MenuExit ==
    /\ cli.pc = "menu"
    /\ \E line \in Lines :
          /\ Strip(line) = <<"5">>
          /\ cli' = [pc |-> "done", choice |-> Strip(line), ran |-> "none",
                     printed |-> "Goodbye."]
    /\ UNCHANGED <<file, df, loaded, rng, op, ret, outcome, derived, kpi, sessions>>

\* else: print("Invalid option."); input("Press ENTER to continue...")
MenuInvalid ==
    /\ cli.pc = "menu"
    /\ \E line \in Lines :
          /\ Strip(line) \notin {<<"1">>, <<"2">>, <<"3">>, <<"4">>, <<"5">>}
          /\ cli' = [pc |-> "menu", choice |-> Strip(line), ran |-> "none",
                     printed |-> "Invalid option."]
    /\ UNCHANGED <<file, df, loaded, rng, op, ret, outcome, derived, kpi, sessions>>

NextCli ==
    \/ RunCli
    \/ MenuFlightPerformance
    \/ MenuCustomerExperience
    \/ MenuRiskSimulation
    \/ MenuCloudAnalytics
    \/ MenuExit
    \/ MenuInvalid

SpecCli == Init /\ [][NextCli]_vars

TypeOK ==
    /\ rng \in 0..(RngMod - 1)
    /\ outcome \in {"returned", "error_reported", "completed", "KeyError", "AttributeError"}

----------------------------------------------------------------------------
(* Claims *)

EntryPoints ==
    {"run_flight_performance_ui", "run_flight_performance_cli",
     "run_customer_experience_ui", "run_customer_experience_cli"}

PrepareCallers ==
    {"prepare_flight_data", "run_flight_performance_ui", "run_flight_performance_cli"}

\* C1: every entry point that loads the dataset answers a missing or empty
\* dataset by reporting an error and stopping, without running a derivation
\* step and without an exception escaping.
C1_MissingDatasetSurfaced ==
    (op \in EntryPoints /\ Missing(loaded)) =>
        (outcome = "error_reported" /\ ~ derived)

\* C2 as claimed: prepare returns None for an absent or zero-row table, adding
\* no column, leaving the random source alone and raising nothing; for every
\* table with at least one row it returns a table carrying the fuel column.
C2_PrepareAsClaimed ==
    [][op' = "prepare_flight_data" =>
        /\ (loaded' = None \/ Length(loaded') = 0) =>
              (ret' = None /\ df' = loaded' /\ rng' = rng /\ outcome' = "returned")
        /\ (loaded' # None /\ Length(loaded') >= 1) =>
              (ret' # None /\ FuelCol \in ret'.cols)]_vars

\* C2 amended: prepare returns None for an absent or empty table (no rows, or
\* no columns), adding no column, leaving the random source alone and raising
\* nothing; for every table with at least one row and a Flight Distance column
\* it returns a table carrying the fuel column.
C2_PrepareEmptyOrAugmented ==
    [][op' = "prepare_flight_data" =>
        /\ Missing(loaded') =>
              (ret' = None /\ df' = loaded' /\ rng' = rng /\ outcome' = "returned")
        /\ (~ Missing(loaded') /\ FlightDistance \in loaded'.cols) =>
              (ret' # None /\ FuelCol \in ret'.cols /\ outcome' = "returned")]_vars

C2_Witness ==
    /\ op = "prepare_flight_data"
    /\ loaded # None
    /\ Length(loaded) = 0
    /\ FlightDistance \in loaded.cols
    /\ ret = None
    /\ outcome = "returned"

\* C3: whatever state the random source was in, the fuel values prepare
\* returns are those a freshly seeded source (seed 42) gives for the table, one
\* draw per row: repeated calls on one table agree row by row.
C3_PrepareDeterministic ==
    (op \in PrepareCallers /\ ret # None) =>
        \A i \in DOMAIN ret.rows :
            ret.rows[i][FuelCol] = FuelValues(loaded, Seed(SEED))[i]

\* a repeated call: the instance handed out already carries the fuel column
\* of an earlier call, and the table has several rows
C3_Witness ==
    /\ op = "prepare_flight_data"
    /\ ret # None
    /\ loaded # None
    /\ FuelCol \in loaded.cols
    /\ Length(loaded) >= 2
    /\ loaded.rows[1][FlightDistance] # loaded.rows[2][FlightDistance]

\* C4: the derivation steps leave the table instance handed out by the loader
\* as it was: same columns, same cells.
C4_OriginalNotMutated ==
    (op \in {"prepare_flight_data", "map_satisfaction"}) => df = loaded

\* the score the documented table gives a lower-cased label
DocumentedScore(l) ==
    CASE l = very_dissatisfied -> 1
      [] l = dissatisfied -> 2
      [] l \in {neutral, neutral_or_dissatisfied} -> 3
      [] l \in {satisfied, neutral_or_satisfied} -> 4
      [] l = very_satisfied -> 5
      [] OTHER -> 3

\* C5: map_satisfaction scores each label, after lower-casing, by the
\* documented table, and every label outside it (empty, arbitrary text,
\* missing) as 3; so letter case does not matter and every score is in 1..5.
C5_ScoreByTable ==
    (op = "map_satisfaction" /\ ret # None) =>
        \A i \in DOMAIN ret.rows :
            LET label == loaded.rows[i][Satisfaction]
                score == ret.rows[i][SatisfactionScore]
            IN  /\ score \in 1..5
                /\ label \in {NaN, <<>>, arbitrary_text, padded_satisfied} => score = 3
                /\ label \in {satisfied, Satisfied_Cap, SATISFIED_UP} => score = 4
                /\ label \in {Very_Dissatisfied_Cap, very_dissatisfied} => score = 1
                /\ label # NaN => score = DocumentedScore(Lower(label))

C5_Witness ==
    /\ op = "map_satisfaction"
    /\ ret # None
    /\ Length(ret) >= 1
    /\ loaded.rows[1][Satisfaction] = SATISFIED_UP
    /\ ret.rows[1][SatisfactionScore] = 4

\* the order Short-haul < Medium-haul < Long-haul
BucketRank(b) ==
    CASE b = "Short-haul" -> 1
      [] b = "Medium-haul" -> 2
      [] b = "Long-haul" -> 3
      [] OTHER -> 0

\* C6: every distance gets exactly one of the three labels, and a larger
\* distance never gets an earlier bucket than a smaller one.
C6_BucketMonotonic ==
    (op = "run_customer_experience_ui" /\ outcome = "completed") =>
        \A i, j \in DOMAIN ret.rows :
            /\ ret.rows[i][DistanceSegment] \in {"Short-haul", "Medium-haul", "Long-haul"}
            /\ ret.rows[i][FlightDistance] <= ret.rows[j][FlightDistance] =>
                  BucketRank(ret.rows[i][DistanceSegment])
                      <= BucketRank(ret.rows[j][DistanceSegment])

C6_Witness ==
    /\ op = "run_customer_experience_ui"
    /\ outcome = "completed"
    /\ Length(ret) >= 2
    /\ ret.rows[1][FlightDistance] < ret.rows[2][FlightDistance]
    /\ ret.rows[1][DistanceSegment] = "Short-haul"
    /\ ret.rows[2][DistanceSegment] = "Long-haul"

\* C7: boundary values go to the upper bucket: below 1500 Short-haul, from
\* 1500 and below 3500 Medium-haul, from 3500 Long-haul.
C7_BucketBoundaries ==
    (op = "run_customer_experience_ui" /\ outcome = "completed") =>
        \A i \in DOMAIN ret.rows :
            LET d == ret.rows[i][FlightDistance]
                b == ret.rows[i][DistanceSegment]
            IN  /\ d < 1500 <=> b = "Short-haul"
                /\ (1500 <= d /\ d < 3500) <=> b = "Medium-haul"
                /\ d >= 3500 <=> b = "Long-haul"
                /\ d = 1499 => b = "Short-haul"
                /\ d = 1500 => b = "Medium-haul"
                /\ d = 3499 => b = "Medium-haul"
                /\ d = 3500 => b = "Long-haul"

C7_Witness ==
    /\ op = "run_customer_experience_ui"
    /\ outcome = "completed"
    /\ Length(ret) >= 2
    /\ ret.rows[1][FlightDistance] = 1500
    /\ ret.rows[1][DistanceSegment] = "Medium-haul"
    /\ ret.rows[2][FlightDistance] = 3500
    /\ ret.rows[2][DistanceSegment] = "Long-haul"

\* C8: in a table prepare returned, each row's fuel (in 1/100000 kg) is its own
\* distance times 0.05 times its own draw, hence between distance*0.05*0.9
\* and distance*0.05*1.1 for a distance >= 0, and between 45 and 55 kg for
\* distance 1000.
C8_FuelWithinJitter ==
    (op \in PrepareCallers /\ ret # None) =>
        \A i \in DOMAIN ret.rows :
            LET d == loaded.rows[i][FlightDistance]
                fuel == ret.rows[i][FuelCol]
                draws == Uniform(Seed(SEED), 900, 1100, Length(loaded))
            IN  /\ d >= 0 => (d * 5 * 900 <= fuel /\ fuel <= d * 5 * 1100)
                /\ d = 1000 => (4500000 <= fuel /\ fuel <= 5500000)
                /\ fuel = d * 5 * draws[i]

C8_Witness ==
    /\ op \in PrepareCallers
    /\ ret # None
    /\ Length(ret) >= 2
    /\ ret.rows[1][FlightDistance] = 1000
    /\ ret.rows[2][FlightDistance] = 3500
    /\ ret.rows[1][FuelCol] # 1000 * 5 * 1000
    /\ ret.rows[1][FuelCol] \div (1000 * 5) # ret.rows[2][FuelCol] \div (3500 * 5)

\* C9: a call of prepare_flight_data leaves the process-wide random source in
\* the state it found it in.
C9_RandomSourceUntouched ==
    [][op' = "prepare_flight_data" => rng' = rng]_vars

\* C10: a derivation step returns its input with derived columns added and
\* nothing else changed: every original column keeps its cells (the
\* satisfaction label included), rows keep their number and order.
C10_OnlyDerivedColumnsAdded ==
    /\ (op = "map_satisfaction" /\ ret # None) =>
          /\ ret.cols = loaded.cols \cup {SatisfactionScore}
          /\ Length(ret) = Length(loaded)
          /\ \A i \in DOMAIN ret.rows : \A c \in loaded.cols \ {SatisfactionScore} :
                ret.rows[i][c] = loaded.rows[i][c]
    /\ (op = "prepare_flight_data" /\ ret # None) =>
          /\ ret.cols = loaded.cols \cup {FuelCol}
          /\ Length(ret) = Length(loaded)
          /\ \A i \in DOMAIN ret.rows : \A c \in loaded.cols \ {FuelCol} :
                ret.rows[i][c] = loaded.rows[i][c]

FlightEntryPoints == {"run_flight_performance_ui", "run_flight_performance_cli"}

CustomerEntryPoints == {"run_customer_experience_ui", "run_customer_experience_cli"}

\* C12: whichever crew-rating columns are absent, the flight-performance UI
\* and CLI complete and report a mean for exactly the crew columns present;
\* when a mandatory column is absent the computation that needs it fails:
\* both flight entry points without Flight Distance or a delay column, both
\* customer entry points without satisfaction, the customer UI without
\* Flight Distance.
C12_OnlyMandatoryColumnsFatal ==
    /\ (/\ op \in FlightEntryPoints
        /\ ~ Missing(loaded)
        /\ {FlightDistance, DepartureDelay, ArrivalDelay} \subseteq loaded.cols) =>
          /\ outcome = "completed"
          /\ DOMAIN kpi.crew = Range(crew_cols) \cap loaded.cols
          /\ \A c \in DOMAIN kpi.crew : kpi.crew[c] = Mean(Column(loaded, c))
    /\ (/\ op \in FlightEntryPoints
        /\ ~ Missing(loaded)
        /\ ~ ({FlightDistance, DepartureDelay, ArrivalDelay} \subseteq loaded.cols)) =>
          outcome = "KeyError"
    /\ (/\ op \in CustomerEntryPoints
        /\ ~ Missing(loaded)
        /\ Satisfaction \notin loaded.cols) =>
          outcome = "KeyError"
    /\ (/\ op = "run_customer_experience_ui"
        /\ ~ Missing(loaded)
        /\ FlightDistance \notin loaded.cols) =>
          outcome = "KeyError"

C12_Witness ==
    /\ op = "run_flight_performance_cli"
    /\ outcome = "completed"
    /\ "Inflight service" \notin loaded.cols
    /\ DOMAIN kpi.crew = {"On-board service", "Checkin service"}
    /\ kpi.crew["Checkin service"] = [sum |-> 5, n |-> 2]

\* two loads of one dataset: the tables agree on everything but the fuel
\* column an earlier prepare_flight_data may have left on the instance
SameDataset(a, b) ==
    /\ a # None
    /\ b # None
    /\ Project(a, a.cols \ {FuelCol}) = Project(b, b.cols \ {FuelCol})

\* the UI and the CLI of one module ran one after the other, in either order,
\* both to completion and on the same dataset
BothRan(ui, cmd) ==
    /\ {op, op'} = {ui, cmd}
    /\ outcome = "completed"
    /\ outcome' = "completed"
    /\ SameDataset(loaded, loaded')

\* C13: on one dataset the UI and the CLI of a module report equal values for
\* the metrics they share: total flights, mean distance, mean arrival delay
\* and mean fuel; passengers, average satisfaction and satisfaction rate (the
\* sidebar left at its default, every option selected).
C13_SameMetricsFromUiAndCli ==
    [][/\ BothRan("run_flight_performance_ui", "run_flight_performance_cli") =>
             /\ kpi'.total_flights = kpi.total_flights
             /\ kpi'.avg_distance = kpi.avg_distance
             /\ kpi'.avg_arr_delay = kpi.avg_arr_delay
             /\ kpi'.avg_fuel = kpi.avg_fuel
       /\ BothRan("run_customer_experience_ui", "run_customer_experience_cli") =>
             /\ kpi'.passengers = kpi.passengers
             /\ kpi'.avg_satisfaction = kpi.avg_satisfaction
             /\ kpi'.satisfaction_rate = kpi.satisfaction_rate]_vars

\* C14: sessions running prepare_flight_data concurrently, their seed and
\* draw steps interleaved in any order, each get the fuel values a session
\* running alone gets for the table.
C14_ConcurrentSessionsAgree ==
    \A s \in DOMAIN sessions :
        (sessions[s].pc = "done" /\ sessions[s].ret # None) =>
            Column(sessions[s].ret, FuelCol) = FuelValues(file, Seed(SEED))

\* C15: an iteration of the menu loop ends the loop exactly when the stripped
\* input is "5", printing Goodbye; "1" to "4" run the one corresponding module
\* and the menu is shown again; any other input runs no module, prints the
\* invalid-option message and the menu is shown again.
C15_MenuLoop ==
    [][(cli.pc = "menu" /\ cli' # cli) =>
          /\ cli'.pc # "menu" <=> cli'.choice = <<"5">>
          /\ cli'.choice = <<"5">> =>
                (cli'.pc = "done" /\ cli'.printed = "Goodbye." /\ cli'.ran = "none")
          /\ cli'.choice = <<"1">> => (cli'.ran = "module1" /\ cli'.pc = "menu")
          /\ cli'.choice = <<"2">> => (cli'.ran = "module2" /\ cli'.pc = "menu")
          /\ cli'.choice = <<"3">> => (cli'.ran = "module3" /\ cli'.pc = "menu")
          /\ cli'.choice = <<"4">> => (cli'.ran = "module4" /\ cli'.pc = "menu")
          /\ cli'.choice \notin {<<"1">>, <<"2">>, <<"3">>, <<"4">>, <<"5">>} =>
                (cli'.ran = "none" /\ cli'.printed = "Invalid option." /\ cli'.pc = "menu")]_vars

====
